---- MODULE Spec2Model ----
(***************************************************************************)
(* The cross-program invocation layer of the AMM program                   *)
(* (program/src/invokers.rs): every operation builds one operation         *)
(* descriptor (an Instruction), one ordered account list and an optional   *)
(* signer-seed set, and hands them to invoke_signed.                       *)
(*                                                                         *)
(* Each operation of `Invokers` is an operator of the same name, with the  *)
(* parameters of the Rust function in the same order, followed by the two  *)
(* outcomes the function does not decide itself:                           *)
(*   build : what the library's instruction builder answers (the `?`),     *)
(*   ext   : what the external collaborator answers to the call.           *)
(* It yields [calls, ret]: the cross-program calls issued, in order, and   *)
(* the value returned to the caller.                                       *)
(*                                                                         *)
(* Three specifications use these operators:                               *)
(*   Spec      every operation, the collaborator opaque (ext is any        *)
(*             InvocationResult);                                          *)
(*   SpecToken the transfer operations against a token-custody service     *)
(*             with balances and registered owners;                        *)
(*   SpecDex   order placement, replacement and batch cancel against an    *)
(*             order-book venue with resting orders.                       *)
(***************************************************************************)
EXTENDS Integers, Sequences, FiniteSets, Bags, TLC

(***************************************************************************)
(* Bounds of the model.                                                    *)
(***************************************************************************)
\* Addresses of plain accounts are <<0>> .. <<NumKeys - 1>>.
NumKeys == 16
\* An operation's account handles are role i |-> address (i + rot) % NumKeys.
MaxRot == 1
\* nonce: u8, drawn from 0 .. MaxNonce.
MaxNonce == 1
\* amounts: u64, drawn from 0 .. MaxAmount.
MaxAmount == 2
\* token balances of the custody service, 0 .. MaxBal.
MaxBal == 2
\* resting orders the venue's book holds at most.
MaxOrders == 2
\* invocations one transaction issues at most.
MaxCalls == 2

(***************************************************************************)
(* Rust's Option and Result.                                               *)
(***************************************************************************)
None == [some |-> FALSE]
Some(x) == [some |-> TRUE, val |-> x]

Ok == [ok |-> TRUE, err |-> "none"]
Err(e) == [ok |-> FALSE, err |-> e]

\* What an instruction builder of a library can answer: the instruction, or
\* the library's error.
BuildResults == {"Ok", "IncorrectProgramId"}
\* What the external collaborator can answer to one call: success, or a
\* failure with an opaque reason.
InvocationResults == {Ok, Err("Custom(0)"), Err("InsufficientFunds")}

(***************************************************************************)
(* Accounts.  A Pubkey is a byte string; an AccountInfo is a handle that   *)
(* carries its key; an AccountMeta names a key with its two flags.         *)
(***************************************************************************)
Pubkey(i) == <<i % NumKeys>>
AccountInfo(k) == [key |-> k]

\* AccountMeta::new(pubkey, is_signer): writable.
AccountMeta_new(pubkey, is_signer) == [pubkey |-> pubkey, is_signer |-> is_signer, is_writable |-> TRUE]
\* AccountMeta::new_readonly(pubkey, is_signer).
AccountMeta_new_readonly(pubkey, is_signer) == [pubkey |-> pubkey, is_signer |-> is_signer, is_writable |-> FALSE]

Instruction(program_id, accounts, data) == [program_id |-> program_id, accounts |-> accounts, data |-> data]

\* The runtime derives the signing identity from a seed set by hashing the
\* seeds one after another (with the program id): the identity is a function
\* of the concatenated bytes, which stand for their hash here.
RECURSIVE Concat(_)
Concat(seeds) == IF seeds = <<>> THEN <<>> ELSE Head(seeds) \o Concat(Tail(seeds))

create_program_address(seeds) == <<255>> \o Concat(seeds)

(***************************************************************************)
(* solana_program::program::invoke_signed(&ix, &accounts, signers): one    *)
(* cross-program call; its result is the collaborator's answer.            *)
(***************************************************************************)
invoke_signed(ix, account_infos, signers_seeds, ext) == [calls |-> <<[ix |-> ix, accounts |-> account_infos, signers |-> signers_seeds]>>, ret |-> ext]

\* `let ix = builder(...)?;` with the builder answering an error: the
\* operation returns it, and nothing is called.
propagate(e) == [calls |-> <<>>, ret |-> Err(e)]

(***************************************************************************)
(* The instruction builders of the token-custody library (spl_token,       *)
(* spl_associated_token_account).  Each answers `build`: the instruction   *)
(* in the protocol's fixed account order, or the library's error.  The     *)
(* authority signs when no multisig signer is named, and the layer names   *)
(* none.                                                                   *)
(***************************************************************************)
Built(build, ix) == IF build = "Ok" THEN [ok |-> TRUE, err |-> "none", val |-> ix] ELSE [ok |-> FALSE, err |-> build]

TokenProgramId == <<254>>
AtaProgramId == <<253>>
SystemProgramId == <<252>>

get_associated_token_address(wallet, mint, token_program_id) == <<251>> \o wallet \o token_program_id \o mint

create_associated_token_account(funding_address, wallet_address, token_mint_address, token_program_id) == Instruction(AtaProgramId, << AccountMeta_new(funding_address, TRUE), AccountMeta_new(get_associated_token_address(wallet_address, token_mint_address, token_program_id), FALSE), AccountMeta_new_readonly(wallet_address, FALSE), AccountMeta_new_readonly(token_mint_address, FALSE), AccountMeta_new_readonly(SystemProgramId, FALSE), AccountMeta_new_readonly(token_program_id, FALSE) >>, [tag |-> "Create"])

spl_token_burn(build, token_program_id, account_pubkey, mint_pubkey, authority_pubkey, signer_pubkeys, amount) == Built(build, Instruction(token_program_id, << AccountMeta_new(account_pubkey, FALSE), AccountMeta_new(mint_pubkey, FALSE), AccountMeta_new_readonly(authority_pubkey, signer_pubkeys = <<>>) >>, [tag |-> "Burn", amount |-> amount]))

spl_token_close_account(build, token_program_id, account_pubkey, destination_pubkey, owner_pubkey, signer_pubkeys) == Built(build, Instruction(token_program_id, << AccountMeta_new(account_pubkey, FALSE), AccountMeta_new(destination_pubkey, FALSE), AccountMeta_new_readonly(owner_pubkey, signer_pubkeys = <<>>) >>, [tag |-> "CloseAccount"]))

spl_token_mint_to(build, token_program_id, mint_pubkey, account_pubkey, owner_pubkey, signer_pubkeys, amount) == Built(build, Instruction(token_program_id, << AccountMeta_new(mint_pubkey, FALSE), AccountMeta_new(account_pubkey, FALSE), AccountMeta_new_readonly(owner_pubkey, signer_pubkeys = <<>>) >>, [tag |-> "MintTo", amount |-> amount]))

spl_token_transfer(build, token_program_id, source_pubkey, destination_pubkey, authority_pubkey, signer_pubkeys, amount) == Built(build, Instruction(token_program_id, << AccountMeta_new(source_pubkey, FALSE), AccountMeta_new(destination_pubkey, FALSE), AccountMeta_new_readonly(authority_pubkey, signer_pubkeys = <<>>) >>, [tag |-> "Transfer", amount |-> amount]))

spl_token_set_authority(build, token_program_id, owned_pubkey, new_authority_pubkey, authority_type, owner_pubkey, signer_pubkeys) == Built(build, Instruction(token_program_id, << AccountMeta_new(owned_pubkey, FALSE), AccountMeta_new_readonly(owner_pubkey, signer_pubkeys = <<>>) >>, [tag |-> "SetAuthority", authority_type |-> authority_type, new_authority |-> new_authority_pubkey]))

AuthorityTypes == {"MintTokens", "FreezeAccount", "AccountOwner", "CloseAccount"}

(***************************************************************************)
(* Invokers: the token-custody operations.                                 *)
(***************************************************************************)
create_ata_spl_token(associated_account, funding_account, wallet_account, token_mint_account, token_program_account, ata_program_account, system_program_account, ext) ==
  LET ix == create_associated_token_account(funding_account.key, wallet_account.key, token_mint_account.key, token_program_account.key)
  IN  invoke_signed(ix, << associated_account, funding_account, wallet_account, token_mint_account, token_program_account, ata_program_account, system_program_account >>, <<>>, ext)

\* A slip: the instruction rebuilt for the well-known token program when the
\* builder refuses the one passed, and dispatched.
token_burn_fallback(token_program, burn_account, mint, owner, burn_amount, build, ext) ==
  LET ix == spl_token_burn(build, token_program.key, burn_account.key, mint.key, owner.key, <<>>, burn_amount)
  IN  IF ~ix.ok THEN invoke_signed(spl_token_burn("Ok", TokenProgramId, burn_account.key, mint.key, owner.key, <<>>, burn_amount).val, << burn_account, mint, owner, token_program >>, <<>>, ext)
      ELSE invoke_signed(ix.val, << burn_account, mint, owner, token_program >>, <<>>, ext)

token_burn(token_program, burn_account, mint, owner, burn_amount, build, ext) ==
  LET ix == spl_token_burn(build, token_program.key, burn_account.key, mint.key, owner.key, <<>>, burn_amount)
  IN  IF ~ix.ok THEN propagate(ix.err)
      ELSE invoke_signed(ix.val, << burn_account, mint, owner, token_program >>, <<>>, ext)

\* A slip: the destination passed ahead of the account it closes.
token_close_with_authority_destination_first(token_program, close_account, destination_account, authority, amm_seed, nonce, build, ext) ==
  LET authority_signature_seeds == << amm_seed, << nonce >> >>
      signers == << authority_signature_seeds >>
      ix == spl_token_close_account(build, token_program.key, close_account.key, destination_account.key, authority.key, <<>>)
  IN  IF ~ix.ok THEN propagate(ix.err)
      ELSE invoke_signed(ix.val, << destination_account, close_account, authority, token_program >>, signers, ext)

token_close_with_authority(token_program, close_account, destination_account, authority, amm_seed, nonce, build, ext) ==
  LET authority_signature_seeds == << amm_seed, << nonce >> >>
      signers == << authority_signature_seeds >>
      ix == spl_token_close_account(build, token_program.key, close_account.key, destination_account.key, authority.key, <<>>)
  IN  IF ~ix.ok THEN propagate(ix.err)
      ELSE invoke_signed(ix.val, << close_account, destination_account, authority, token_program >>, signers, ext)

\* A slip: the nonce of the seed set mixed with the amount.
token_burn_with_authority_salted(token_program, burn_account, mint, authority, amm_seed, nonce, burn_amount, build, ext) ==
  LET authority_signature_seeds == << amm_seed, << (nonce + burn_amount) % 256 >> >>
      signers == << authority_signature_seeds >>
      ix == spl_token_burn(build, token_program.key, burn_account.key, mint.key, authority.key, <<>>, burn_amount)
  IN  IF ~ix.ok THEN propagate(ix.err)
      ELSE invoke_signed(ix.val, << burn_account, mint, authority, token_program >>, signers, ext)

token_burn_with_authority(token_program, burn_account, mint, authority, amm_seed, nonce, burn_amount, build, ext) ==
  LET authority_signature_seeds == << amm_seed, << nonce >> >>
      signers == << authority_signature_seeds >>
      ix == spl_token_burn(build, token_program.key, burn_account.key, mint.key, authority.key, <<>>, burn_amount)
  IN  IF ~ix.ok THEN propagate(ix.err)
      ELSE invoke_signed(ix.val, << burn_account, mint, authority, token_program >>, signers, ext)

\* A slip: the mint authority's seeds left out, as for a wallet's signature.
token_mint_to_unsigned(token_program, mint, destination, authority, amm_seed, nonce, amount, build, ext) ==
  LET ix == spl_token_mint_to(build, token_program.key, mint.key, destination.key, authority.key, <<>>, amount)
  IN  IF ~ix.ok THEN propagate(ix.err)
      ELSE invoke_signed(ix.val, << mint, destination, authority, token_program >>, <<>>, ext)

token_mint_to(token_program, mint, destination, authority, amm_seed, nonce, amount, build, ext) ==
  LET authority_signature_seeds == << amm_seed, << nonce >> >>
      signers == << authority_signature_seeds >>
      ix == spl_token_mint_to(build, token_program.key, mint.key, destination.key, authority.key, <<>>, amount)
  IN  IF ~ix.ok THEN propagate(ix.err)
      ELSE invoke_signed(ix.val, << mint, destination, authority, token_program >>, signers, ext)

\* A slip: source and destination handed to the builder the other way round.
token_transfer_swapped(token_program, source, destination, owner, deposit_amount, build, ext) ==
  LET ix == spl_token_transfer(build, token_program.key, destination.key, source.key, owner.key, <<>>, deposit_amount)
  IN  IF ~ix.ok THEN propagate(ix.err)
      ELSE invoke_signed(ix.val, << source, destination, owner, token_program >>, <<>>, ext)

token_transfer(token_program, source, destination, owner, deposit_amount, build, ext) ==
  LET ix == spl_token_transfer(build, token_program.key, source.key, destination.key, owner.key, <<>>, deposit_amount)
  IN  IF ~ix.ok THEN propagate(ix.err)
      ELSE invoke_signed(ix.val, << source, destination, owner, token_program >>, <<>>, ext)

\* A slip: the answer of the invocation dropped.
token_transfer_with_authority_unchecked(token_program, source, destination, authority, amm_seed, nonce, amount, build, ext) ==
  LET authority_signature_seeds == << amm_seed, << nonce >> >>
      signers == << authority_signature_seeds >>
      ix == spl_token_transfer(build, token_program.key, source.key, destination.key, authority.key, <<>>, amount)
  IN  IF ~ix.ok THEN propagate(ix.err)
      ELSE [ calls |-> invoke_signed(ix.val, << source, destination, authority, token_program >>, signers, ext).calls, ret |-> Ok ]

token_transfer_with_authority(token_program, source, destination, authority, amm_seed, nonce, amount, build, ext) ==
  LET authority_signature_seeds == << amm_seed, << nonce >> >>
      signers == << authority_signature_seeds >>
      ix == spl_token_transfer(build, token_program.key, source.key, destination.key, authority.key, <<>>, amount)
  IN  IF ~ix.ok THEN propagate(ix.err)
      ELSE invoke_signed(ix.val, << source, destination, authority, token_program >>, signers, ext)

\* A slip: the close authority cleared, not reassigned.
token_set_authority_clearing(token_program, account, authority, new_authority, amm_seed, authority_nonce, authority_type, build, ext) ==
  LET authority_signature_seeds == << amm_seed, << authority_nonce >> >>
      signers == << authority_signature_seeds >>
      ix == spl_token_set_authority(build, token_program.key, account.key, IF authority_type = "CloseAccount" THEN None ELSE Some(new_authority.key), authority_type, authority.key, <<>>)
  IN  IF ~ix.ok THEN propagate(ix.err)
      ELSE invoke_signed(ix.val, << account, authority, token_program >>, signers, ext)

token_set_authority(token_program, account, authority, new_authority, amm_seed, authority_nonce, authority_type, build, ext) ==
  LET authority_signature_seeds == << amm_seed, << authority_nonce >> >>
      signers == << authority_signature_seeds >>
      ix == spl_token_set_authority(build, token_program.key, account.key, Some(new_authority.key), authority_type, authority.key, <<>>)
  IN  IF ~ix.ok THEN propagate(ix.err)
      ELSE invoke_signed(ix.val, << account, authority, token_program >>, signers, ext)

(***************************************************************************)
(* The instruction builders of the order-book venue's library (serum_dex). *)
(* NewOrderInstructionV3 is the order payload; new_order has the signature *)
(* of Invokers::replace_order_by_client_id, its copy in this repository.   *)
(***************************************************************************)
RentSysvarId == <<250>>

Sides == {"Bid", "Ask"}
OrderTypes == {"Limit", "ImmediateOrCancel", "PostOnly"}
SelfTradeBehaviors == {"DecrementTake", "CancelProvide", "AbortTransaction"}
\* i64::MAX, the expiry that never comes; the other expiries are numbers.
I64_MAX == "i64::MAX"
\* [u64; 8]
NumClientOrderIds == 8

NewOrderInstructionV3(side, limit_price, max_coin_qty, order_type, client_order_id, self_trade_behavior, limit, max_native_pc_qty_including_fees, max_ts) == [side |-> side, limit_price |-> limit_price, max_coin_qty |-> max_coin_qty, order_type |-> order_type, client_order_id |-> client_order_id, self_trade_behavior |-> self_trade_behavior, limit |-> limit, max_native_pc_qty_including_fees |-> max_native_pc_qty_including_fees, max_ts |-> max_ts]

\* The thirteenth account of an order: the referral, only when there is one.
OrderAccountMetas(market, open_orders_account, request_queue, event_queue, market_bids, market_asks, order_payer, open_orders_account_owner, coin_vault, pc_vault, spl_token_program_id, rent_sysvar_id, srm_account_referral) ==
  LET accounts == << AccountMeta_new(market, FALSE), AccountMeta_new(open_orders_account, FALSE), AccountMeta_new(request_queue, FALSE), AccountMeta_new(event_queue, FALSE), AccountMeta_new(market_bids, FALSE), AccountMeta_new(market_asks, FALSE), AccountMeta_new(order_payer, FALSE), AccountMeta_new_readonly(open_orders_account_owner, TRUE), AccountMeta_new(coin_vault, FALSE), AccountMeta_new(pc_vault, FALSE), AccountMeta_new_readonly(spl_token_program_id, FALSE), AccountMeta_new_readonly(rent_sysvar_id, FALSE) >>
  IN  IF srm_account_referral.some THEN Append(accounts, AccountMeta_new_readonly(srm_account_referral.val, FALSE)) ELSE accounts

serum_dex_new_order(build, market, open_orders_account, request_queue, event_queue, market_bids, market_asks, order_payer, open_orders_account_owner, coin_vault, pc_vault, spl_token_program_id, rent_sysvar_id, srm_account_referral, program_id, side, limit_price, max_coin_qty, order_type, client_order_id, self_trade_behavior, limit, max_native_pc_qty_including_fees, max_ts) == Built(build, Instruction(program_id, OrderAccountMetas(market, open_orders_account, request_queue, event_queue, market_bids, market_asks, order_payer, open_orders_account_owner, coin_vault, pc_vault, spl_token_program_id, rent_sysvar_id, srm_account_referral), [tag |-> "NewOrderV3", order |-> NewOrderInstructionV3(side, limit_price, max_coin_qty, order_type, client_order_id, self_trade_behavior, limit, max_native_pc_qty_including_fees, max_ts)]))

serum_dex_init_open_orders(build, program_id, open_orders, owner, market, market_authority) ==
  LET accounts == << AccountMeta_new(open_orders, FALSE), AccountMeta_new_readonly(owner, TRUE), AccountMeta_new_readonly(market, FALSE), AccountMeta_new_readonly(RentSysvarId, FALSE) >>
  IN  Built(build, Instruction(program_id, IF market_authority.some THEN Append(accounts, AccountMeta_new_readonly(market_authority.val, TRUE)) ELSE accounts, [tag |-> "InitOpenOrders"]))

serum_dex_close_open_orders(build, program_id, open_orders, owner, destination, market) == Built(build, Instruction(program_id, << AccountMeta_new(open_orders, FALSE), AccountMeta_new_readonly(owner, TRUE), AccountMeta_new(destination, FALSE), AccountMeta_new_readonly(market, FALSE) >>, [tag |-> "CloseOpenOrders"]))

CancelAccountMetas(market, market_bids, market_asks, open_orders_account, open_orders_account_owner, event_queue) == << AccountMeta_new(market, FALSE), AccountMeta_new(market_bids, FALSE), AccountMeta_new(market_asks, FALSE), AccountMeta_new(open_orders_account, FALSE), AccountMeta_new_readonly(open_orders_account_owner, TRUE), AccountMeta_new(event_queue, FALSE) >>

serum_dex_cancel_order(build, program_id, market, market_bids, market_asks, open_orders_account, open_orders_account_owner, event_queue, side, order_id) == Built(build, Instruction(program_id, CancelAccountMetas(market, market_bids, market_asks, open_orders_account, open_orders_account_owner, event_queue), [tag |-> "CancelOrderV2", side |-> side, order_id |-> order_id]))

serum_dex_cancel_orders_by_client_order_ids(build, program_id, market, market_bids, market_asks, open_orders_account, open_orders_account_owner, event_queue, client_order_ids) == Built(build, Instruction(program_id, CancelAccountMetas(market, market_bids, market_asks, open_orders_account, open_orders_account_owner, event_queue), [tag |-> "CancelOrdersByClientIds", client_order_ids |-> client_order_ids]))

serum_dex_settle_funds(build, program_id, market, spl_token_program_id, open_orders_account, open_orders_account_owner, coin_vault, coin_wallet, pc_vault, pc_wallet, referrer_pc_wallet, vault_signer) ==
  LET accounts == << AccountMeta_new(market, FALSE), AccountMeta_new(open_orders_account, FALSE), AccountMeta_new_readonly(open_orders_account_owner, TRUE), AccountMeta_new(coin_vault, FALSE), AccountMeta_new(pc_vault, FALSE), AccountMeta_new(coin_wallet, FALSE), AccountMeta_new(pc_wallet, FALSE), AccountMeta_new_readonly(vault_signer, FALSE), AccountMeta_new_readonly(spl_token_program_id, FALSE) >>
  IN  Built(build, Instruction(program_id, IF referrer_pc_wallet.some THEN Append(accounts, AccountMeta_new(referrer_pc_wallet.val, FALSE)) ELSE accounts, [tag |-> "SettleFunds"]))

(***************************************************************************)
(* Invokers: the order-book operations.                                    *)
(***************************************************************************)
invoke_dex_init_open_orders(dex_program, open_orders, open_orders_owner, market, rent_sysvar, amm_seed, nonce, build, ext) ==
  LET authority_signature_seeds == << amm_seed, << nonce >> >>
      signers == << authority_signature_seeds >>
      ix == serum_dex_init_open_orders(build, dex_program.key, open_orders.key, open_orders_owner.key, market.key, None)
      accounts == << dex_program, open_orders, open_orders_owner, market, rent_sysvar >>
  IN  IF ~ix.ok THEN propagate(ix.err)
      ELSE invoke_signed(ix.val, accounts, signers, ext)

invoke_dex_close_open_orders(dex_program, open_orders, open_orders_owner, destination, market, amm_seed, nonce, build, ext) ==
  LET authority_signature_seeds == << amm_seed, << nonce >> >>
      signers == << authority_signature_seeds >>
      ix == serum_dex_close_open_orders(build, dex_program.key, open_orders.key, open_orders_owner.key, destination.key, market.key)
      accounts == << dex_program, open_orders, open_orders_owner, destination, market >>
  IN  IF ~ix.ok THEN propagate(ix.err)
      ELSE invoke_signed(ix.val, accounts, signers, ext)

\* Invokers::replace_order_by_client_id: it answers Ok(Instruction) always.
\* A slip: the two vaults of the account metas the other way round.
replace_order_by_client_id_vaults_swapped(market, open_orders_account, request_queue, event_queue, market_bids, market_asks, order_payer, open_orders_account_owner, coin_vault, pc_vault, spl_token_program_id, rent_sysvar_id, srm_account_referral, program_id, side, limit_price, max_coin_qty, order_type, client_order_id, self_trade_behavior, limit, max_native_pc_qty_including_fees, max_ts) ==
  LET data == [tag |-> "ReplaceOrderByClientId", order |-> [side |-> side, limit_price |-> limit_price, max_coin_qty |-> max_coin_qty, order_type |-> order_type, client_order_id |-> client_order_id, self_trade_behavior |-> self_trade_behavior, limit |-> limit, max_native_pc_qty_including_fees |-> max_native_pc_qty_including_fees, max_ts |-> max_ts]]
      accounts0 == << AccountMeta_new(market, FALSE), AccountMeta_new(open_orders_account, FALSE), AccountMeta_new(request_queue, FALSE), AccountMeta_new(event_queue, FALSE), AccountMeta_new(market_bids, FALSE), AccountMeta_new(market_asks, FALSE), AccountMeta_new(order_payer, FALSE), AccountMeta_new_readonly(open_orders_account_owner, TRUE), AccountMeta_new(pc_vault, FALSE), AccountMeta_new(coin_vault, FALSE), AccountMeta_new_readonly(spl_token_program_id, FALSE), AccountMeta_new_readonly(rent_sysvar_id, FALSE) >>
      accounts == IF srm_account_referral.some THEN Append(accounts0, AccountMeta_new_readonly(srm_account_referral.val, FALSE)) ELSE accounts0
  IN  [ok |-> TRUE, err |-> "none", val |-> [program_id |-> program_id, data |-> data, accounts |-> accounts]]

replace_order_by_client_id(market, open_orders_account, request_queue, event_queue, market_bids, market_asks, order_payer, open_orders_account_owner, coin_vault, pc_vault, spl_token_program_id, rent_sysvar_id, srm_account_referral, program_id, side, limit_price, max_coin_qty, order_type, client_order_id, self_trade_behavior, limit, max_native_pc_qty_including_fees, max_ts) ==
  LET data == [tag |-> "ReplaceOrderByClientId", order |-> [side |-> side, limit_price |-> limit_price, max_coin_qty |-> max_coin_qty, order_type |-> order_type, client_order_id |-> client_order_id, self_trade_behavior |-> self_trade_behavior, limit |-> limit, max_native_pc_qty_including_fees |-> max_native_pc_qty_including_fees, max_ts |-> max_ts]]
      accounts0 == << AccountMeta_new(market, FALSE), AccountMeta_new(open_orders_account, FALSE), AccountMeta_new(request_queue, FALSE), AccountMeta_new(event_queue, FALSE), AccountMeta_new(market_bids, FALSE), AccountMeta_new(market_asks, FALSE), AccountMeta_new(order_payer, FALSE), AccountMeta_new_readonly(open_orders_account_owner, TRUE), AccountMeta_new(coin_vault, FALSE), AccountMeta_new(pc_vault, FALSE), AccountMeta_new_readonly(spl_token_program_id, FALSE), AccountMeta_new_readonly(rent_sysvar_id, FALSE) >>
      accounts == IF srm_account_referral.some THEN Append(accounts0, AccountMeta_new_readonly(srm_account_referral.val, FALSE)) ELSE accounts0
  IN  [ok |-> TRUE, err |-> "none", val |-> [program_id |-> program_id, data |-> data, accounts |-> accounts]]

\* A slip: the self-trade behaviour following the order type.
invoke_dex_replace_order_by_client_id_policy(dex_program, market, open_orders, req_q, event_q, bids, asks, payer, open_orders_owner, coin_vault, pc_vault, token_program, rent_account, srm_account_referral, amm_seed, nonce, side, limit_price, max_coin_qty, max_native_pc_qty_including_fees, order_type, client_order_id, limit, ext) ==
  LET authority_signature_seeds == << amm_seed, << nonce >> >>
      signers == << authority_signature_seeds >>
      srm_account_referral_key == IF srm_account_referral.some THEN Some(srm_account_referral.val.key) ELSE None
      ix == replace_order_by_client_id(market.key, open_orders.key, req_q.key, event_q.key, bids.key, asks.key, payer.key, open_orders_owner.key, coin_vault.key, pc_vault.key, token_program.key, rent_account.key, srm_account_referral_key, dex_program.key, side, limit_price, max_coin_qty, order_type, client_order_id, IF order_type = "ImmediateOrCancel" THEN "DecrementTake" ELSE "CancelProvide", limit, max_native_pc_qty_including_fees, I64_MAX)
      accounts0 == << dex_program, market, open_orders, req_q, event_q, bids, asks, payer, open_orders_owner, coin_vault, pc_vault, token_program, rent_account >>
      accounts == IF srm_account_referral.some THEN Append(accounts0, srm_account_referral.val) ELSE accounts0
  IN  IF ~ix.ok THEN propagate(ix.err)
      ELSE invoke_signed(ix.val, accounts, signers, ext)

\* A slip: the rent sysvar passed ahead of the token program.
invoke_dex_replace_order_by_client_id_rent_first(dex_program, market, open_orders, req_q, event_q, bids, asks, payer, open_orders_owner, coin_vault, pc_vault, token_program, rent_account, srm_account_referral, amm_seed, nonce, side, limit_price, max_coin_qty, max_native_pc_qty_including_fees, order_type, client_order_id, limit, ext) ==
  LET authority_signature_seeds == << amm_seed, << nonce >> >>
      signers == << authority_signature_seeds >>
      srm_account_referral_key == IF srm_account_referral.some THEN Some(srm_account_referral.val.key) ELSE None
      ix == replace_order_by_client_id(market.key, open_orders.key, req_q.key, event_q.key, bids.key, asks.key, payer.key, open_orders_owner.key, coin_vault.key, pc_vault.key, token_program.key, rent_account.key, srm_account_referral_key, dex_program.key, side, limit_price, max_coin_qty, order_type, client_order_id, "CancelProvide", limit, max_native_pc_qty_including_fees, I64_MAX)
      accounts0 == << dex_program, market, open_orders, req_q, event_q, bids, asks, payer, open_orders_owner, coin_vault, pc_vault, rent_account, token_program >>
      accounts == IF srm_account_referral.some THEN Append(accounts0, srm_account_referral.val) ELSE accounts0
  IN  IF ~ix.ok THEN propagate(ix.err)
      ELSE invoke_signed(ix.val, accounts, signers, ext)

invoke_dex_replace_order_by_client_id(dex_program, market, open_orders, req_q, event_q, bids, asks, payer, open_orders_owner, coin_vault, pc_vault, token_program, rent_account, srm_account_referral, amm_seed, nonce, side, limit_price, max_coin_qty, max_native_pc_qty_including_fees, order_type, client_order_id, limit, ext) ==
  LET authority_signature_seeds == << amm_seed, << nonce >> >>
      signers == << authority_signature_seeds >>
      srm_account_referral_key == IF srm_account_referral.some THEN Some(srm_account_referral.val.key) ELSE None
      ix == replace_order_by_client_id(market.key, open_orders.key, req_q.key, event_q.key, bids.key, asks.key, payer.key, open_orders_owner.key, coin_vault.key, pc_vault.key, token_program.key, rent_account.key, srm_account_referral_key, dex_program.key, side, limit_price, max_coin_qty, order_type, client_order_id, "CancelProvide", limit, max_native_pc_qty_including_fees, I64_MAX)
      accounts0 == << dex_program, market, open_orders, req_q, event_q, bids, asks, payer, open_orders_owner, coin_vault, pc_vault, token_program, rent_account >>
      accounts == IF srm_account_referral.some THEN Append(accounts0, srm_account_referral.val) ELSE accounts0
  IN  IF ~ix.ok THEN propagate(ix.err)
      ELSE invoke_signed(ix.val, accounts, signers, ext)

\* A slip: the referral slot always filled, by a placeholder when there is no
\* referral.
invoke_dex_new_order_v3_placeholder(dex_program, market, open_orders, req_q, event_q, bids, asks, payer, open_orders_owner, coin_vault, pc_vault, token_program, rent_account, srm_account_referral, amm_seed, nonce, side, limit_price, max_coin_qty, max_native_pc_qty_including_fees, order_type, client_order_id, limit, build, ext) ==
  LET authority_signature_seeds == << amm_seed, << nonce >> >>
      signers == << authority_signature_seeds >>
      srm_account_referral_key == IF srm_account_referral.some THEN Some(srm_account_referral.val.key) ELSE None
      ix == serum_dex_new_order(build, market.key, open_orders.key, req_q.key, event_q.key, bids.key, asks.key, payer.key, open_orders_owner.key, coin_vault.key, pc_vault.key, token_program.key, rent_account.key, srm_account_referral_key, dex_program.key, side, limit_price, max_coin_qty, order_type, client_order_id, "CancelProvide", limit, max_native_pc_qty_including_fees, I64_MAX)
      accounts0 == << dex_program, market, open_orders, req_q, event_q, bids, asks, payer, open_orders_owner, coin_vault, pc_vault, token_program, rent_account >>
      accounts == Append(accounts0, IF srm_account_referral.some THEN srm_account_referral.val ELSE dex_program)
  IN  IF ~ix.ok THEN propagate(ix.err)
      ELSE invoke_signed(ix.val, accounts, signers, ext)

invoke_dex_new_order_v3(dex_program, market, open_orders, req_q, event_q, bids, asks, payer, open_orders_owner, coin_vault, pc_vault, token_program, rent_account, srm_account_referral, amm_seed, nonce, side, limit_price, max_coin_qty, max_native_pc_qty_including_fees, order_type, client_order_id, limit, build, ext) ==
  LET authority_signature_seeds == << amm_seed, << nonce >> >>
      signers == << authority_signature_seeds >>
      srm_account_referral_key == IF srm_account_referral.some THEN Some(srm_account_referral.val.key) ELSE None
      ix == serum_dex_new_order(build, market.key, open_orders.key, req_q.key, event_q.key, bids.key, asks.key, payer.key, open_orders_owner.key, coin_vault.key, pc_vault.key, token_program.key, rent_account.key, srm_account_referral_key, dex_program.key, side, limit_price, max_coin_qty, order_type, client_order_id, "CancelProvide", limit, max_native_pc_qty_including_fees, I64_MAX)
      accounts0 == << dex_program, market, open_orders, req_q, event_q, bids, asks, payer, open_orders_owner, coin_vault, pc_vault, token_program, rent_account >>
      accounts == IF srm_account_referral.some THEN Append(accounts0, srm_account_referral.val) ELSE accounts0
  IN  IF ~ix.ok THEN propagate(ix.err)
      ELSE invoke_signed(ix.val, accounts, signers, ext)

\* A slip: the call issued a second time when it fails.
invoke_dex_cancel_order_v2_retried(dex_program, market, bids, asks, open_orders, open_orders_owner, event_q, amm_seed, nonce, side, order_id, build, ext) ==
  LET authority_signature_seeds == << amm_seed, << nonce >> >>
      signers == << authority_signature_seeds >>
      ix == serum_dex_cancel_order(build, dex_program.key, market.key, bids.key, asks.key, open_orders.key, open_orders_owner.key, event_q.key, side, order_id)
      accounts == << dex_program, market, bids, asks, open_orders, open_orders_owner, event_q >>
      first == invoke_signed(ix.val, accounts, signers, ext)
  IN  IF ~ix.ok THEN propagate(ix.err)
      ELSE IF first.ret.ok THEN first
      ELSE [ calls |-> first.calls \o invoke_signed(ix.val, accounts, signers, ext).calls, ret |-> ext ]

invoke_dex_cancel_order_v2(dex_program, market, bids, asks, open_orders, open_orders_owner, event_q, amm_seed, nonce, side, order_id, build, ext) ==
  LET authority_signature_seeds == << amm_seed, << nonce >> >>
      signers == << authority_signature_seeds >>
      ix == serum_dex_cancel_order(build, dex_program.key, market.key, bids.key, asks.key, open_orders.key, open_orders_owner.key, event_q.key, side, order_id)
      accounts == << dex_program, market, bids, asks, open_orders, open_orders_owner, event_q >>
  IN  IF ~ix.ok THEN propagate(ix.err)
      ELSE invoke_signed(ix.val, accounts, signers, ext)

\* A slip: only the slots that are set (non-zero) sent on.
invoke_dex_cancel_orders_by_client_order_ids_compacted(dex_program, market, bids, asks, open_orders, open_orders_owner, event_q, amm_seed, nonce, client_order_ids, build, ext) ==
  LET authority_signature_seeds == << amm_seed, << nonce >> >>
      signers == << authority_signature_seeds >>
      set(id) == id # 0
      ix == serum_dex_cancel_orders_by_client_order_ids(build, dex_program.key, market.key, bids.key, asks.key, open_orders.key, open_orders_owner.key, event_q.key, SelectSeq(client_order_ids, set))
      accounts == << dex_program, market, bids, asks, open_orders, open_orders_owner, event_q >>
  IN  IF ~ix.ok THEN propagate(ix.err)
      ELSE invoke_signed(ix.val, accounts, signers, ext)

invoke_dex_cancel_orders_by_client_order_ids(dex_program, market, bids, asks, open_orders, open_orders_owner, event_q, amm_seed, nonce, client_order_ids, build, ext) ==
  LET authority_signature_seeds == << amm_seed, << nonce >> >>
      signers == << authority_signature_seeds >>
      ix == serum_dex_cancel_orders_by_client_order_ids(build, dex_program.key, market.key, bids.key, asks.key, open_orders.key, open_orders_owner.key, event_q.key, client_order_ids)
      accounts == << dex_program, market, bids, asks, open_orders, open_orders_owner, event_q >>
  IN  IF ~ix.ok THEN propagate(ix.err)
      ELSE invoke_signed(ix.val, accounts, signers, ext)

\* A slip: the account list in the order of the builder's arguments.
invoke_dex_settle_funds_in_builder_order(dex_program, market, open_orders, owner, coin_vault, pc_vault, coin_wallet, pc_wallet, vault_signer, spl_token_program, referrer_pc_wallet, amm_seed, nonce, build, ext) ==
  LET authority_signature_seeds == << amm_seed, << nonce >> >>
      signers == << authority_signature_seeds >>
      referrer_pc_wallet_key == IF referrer_pc_wallet.some THEN Some(referrer_pc_wallet.val.key) ELSE None
      ix == serum_dex_settle_funds(build, dex_program.key, market.key, spl_token_program.key, open_orders.key, owner.key, coin_vault.key, coin_wallet.key, pc_vault.key, pc_wallet.key, referrer_pc_wallet_key, vault_signer.key)
      accounts0 == << dex_program, market, spl_token_program, open_orders, owner, coin_vault, coin_wallet, pc_vault, pc_wallet, vault_signer >>
      accounts == IF referrer_pc_wallet.some THEN Append(accounts0, referrer_pc_wallet.val) ELSE accounts0
  IN  IF ~ix.ok THEN propagate(ix.err)
      ELSE invoke_signed(ix.val, accounts, signers, ext)

invoke_dex_settle_funds(dex_program, market, open_orders, owner, coin_vault, pc_vault, coin_wallet, pc_wallet, vault_signer, spl_token_program, referrer_pc_wallet, amm_seed, nonce, build, ext) ==
  LET authority_signature_seeds == << amm_seed, << nonce >> >>
      signers == << authority_signature_seeds >>
      referrer_pc_wallet_key == IF referrer_pc_wallet.some THEN Some(referrer_pc_wallet.val.key) ELSE None
      ix == serum_dex_settle_funds(build, dex_program.key, market.key, spl_token_program.key, open_orders.key, owner.key, coin_vault.key, coin_wallet.key, pc_vault.key, pc_wallet.key, referrer_pc_wallet_key, vault_signer.key)
      accounts0 == << dex_program, market, open_orders, owner, coin_vault, pc_vault, coin_wallet, pc_wallet, vault_signer, spl_token_program >>
      accounts == IF referrer_pc_wallet.some THEN Append(accounts0, referrer_pc_wallet.val) ELSE accounts0
  IN  IF ~ix.ok THEN propagate(ix.err)
      ELSE invoke_signed(ix.val, accounts, signers, ext)

(***************************************************************************)
(* State.                                                                  *)
(*   pc      "idle": no operation of the layer is running;                 *)
(*           "returned": one has just returned to its caller.              *)
(*   op, args, env, calls, ret                                             *)
(*           the operation that returned: its name, its arguments, the     *)
(*           two outcomes it met, the cross-program calls it issued and    *)
(*           the value it returned.  The layer keeps none of them: the     *)
(*           caller's return to idle drops them.                           *)
(*   derived the signer seeds (and the identity the runtime derives from   *)
(*           them) of the latest operation before this one that signed,    *)
(*           with the (seed, nonce) it was given.                          *)
(*   bal, registered_owner                                                 *)
(*           the custody service: balance and registered owner of each     *)
(*           token account.                                                *)
(*   book    the venue: the resting orders, oldest first.                  *)
(*   before  the collaborator's state (balances, or book) when the         *)
(*           operation that returned was called.                          *)
(*   trip    the latest operation before this one, when it was a transfer  *)
(*           the custody service carried out: its source, destination and  *)
(*           amount, and the balances before it.                           *)
(*   txpc    the transaction the entry point is running: "none" before the *)
(*           first, "processing" while the processor runs, "committed" or  *)
(*           "aborted" once the runtime has its result.                    *)
(*   issued  how many invocations the layer has handed to the runtime in   *)
(*           the transaction.                                              *)
(*   inflight  the invocations handed to the runtime that the collaborator *)
(*           has not returned from: the position k at which each was       *)
(*           issued, and the call.                                         *)
(*   journal the invocations of the transaction in the order they took     *)
(*           effect: the position k at which each was issued, the          *)
(*           collaborator's answer, and the balances after it.             *)
(*   entry   the processor's result and what process_instruction did with  *)
(*           it, once the transaction has ended.                           *)
(***************************************************************************)
VARIABLES pc, op, args, env, calls, ret, derived, bal, registered_owner, book, before, trip, txpc, issued, inflight, journal, entry

layer == << pc, op, args, env, calls, ret >>
tx == << txpc, issued, inflight, journal, entry >>
world == << bal, registered_owner, book, before, trip, tx >>
vars == << pc, op, args, env, calls, ret, derived, bal, registered_owner, book, before, trip, txpc, issued, inflight, journal, entry >>

\* No transaction has run yet.
NoTransaction ==
  /\ txpc = "none"
  /\ issued = 0
  /\ inflight = { }
  /\ journal = << >>
  /\ entry = None

(***************************************************************************)
(* Inputs.                                                                 *)
(***************************************************************************)
Rots == 0 .. MaxRot
Acct(i, rot) == AccountInfo(Pubkey(i + rot))

Seeds == { << 97, 109, 109 >>, << 7 >> }
Nonces == 0 .. MaxNonce
Amounts == 0 .. MaxAmount

\* u64 client order ids, u128 order ids, u16 limits.
ClientOrderIds == { 0, 1 }
OrderIds == { 1, 2 }
Limits == { 0, 65535 }
\* (limit_price, max_coin_qty, max_native_pc_qty_including_fees): NonZeroU64.
OrderQuantities == { << 1, 2, 3 >>, << 3, 1, 2 >> }
\* [u64; 8]: slot i holds (first + (i - 1) * step) % 3; 2 is an id no order
\* carries.
ClientOrderIdArrays == { [ i \in 1 .. NumClientOrderIds |-> (first + (i - 1) * step) % 3 ] : first \in 0 .. 2, step \in 0 .. 1 }

Envs == { [ build |-> b, ext |-> e ] : b \in BuildResults, e \in InvocationResults }
\* The operations whose descriptor no library call can refuse.
EnvsBuilt == { [ build |-> "Ok", ext |-> e ] : e \in InvocationResults }
Referrals(i, rot) == { None, Some(Acct(i, rot)) }

NoArgs == << >>
NoEnv == [ build |-> "Ok", ext |-> Ok ]

Init ==
  /\ pc = "idle"
  /\ op = "none"
  /\ args = NoArgs
  /\ env = NoEnv
  /\ calls = << >>
  /\ ret = Ok
  /\ derived = None
  /\ bal = << >>
  /\ registered_owner = << >>
  /\ book = << >>
  /\ before = None
  /\ trip = None
  /\ NoTransaction

\* One operation of the layer, called by the processor while none is running
\* (the guard pc = "idle" of every action), and run to its return.
Returns(o, a, e, r) ==
  /\ pc' = "returned"
  /\ op' = o
  /\ args' = a
  /\ env' = e
  /\ calls' = r.calls
  /\ ret' = r.ret
  /\ UNCHANGED derived

\* The signer seeds the returned operation supplied, if it supplied any.
Derivation ==
  IF calls # << >> /\ calls[1].signers # << >>
  THEN Some([ pair |-> << args.amm_seed, args.nonce >>, seeds |-> calls[1].signers, identity |-> create_program_address(calls[1].signers[1]) ])
  ELSE None

Transfers == { "token_transfer", "token_transfer_with_authority" }
Amount(o, a) == IF o = "token_transfer" THEN a.deposit_amount ELSE a.amount

\* The returned operation, when it was a transfer the custody service carried
\* out.
Trip ==
  IF op \in Transfers /\ calls # << >> /\ ret.ok /\ before.some
  THEN Some([ source |-> args.source.key, destination |-> args.destination.key, amount |-> Amount(op, args), before |-> before.val ])
  ELSE None

\* The caller goes on: nothing of the operation stays behind.
Drop ==
  /\ pc = "returned"
  /\ pc' = "idle"
  /\ op' = "none"
  /\ args' = NoArgs
  /\ env' = NoEnv
  /\ calls' = << >>
  /\ ret' = Ok

\* Each specification remembers of the operation what its claims read:
\* Spec the signer seeds, SpecToken the transfer, SpecDex nothing.
Return ==
  /\ Drop
  /\ derived' = IF Derivation.some THEN Derivation ELSE derived
  /\ UNCHANGED world

CustodyReturn ==
  /\ Drop
  /\ before' = None
  /\ trip' = Trip
  /\ UNCHANGED << derived, bal, registered_owner, book, tx >>

VenueReturn ==
  /\ Drop
  /\ before' = None
  /\ UNCHANGED << derived, bal, registered_owner, book, trip, tx >>

(***************************************************************************)
(* Spec: every operation, the collaborator opaque.                         *)
(***************************************************************************)
CreateAtaSplToken ==
  /\ pc = "idle"
  /\ \E rot \in Rots, e \in EnvsBuilt :
       LET a == [ associated_account |-> Acct(0, rot), funding_account |-> Acct(1, rot), wallet_account |-> Acct(2, rot), token_mint_account |-> Acct(3, rot), token_program_account |-> Acct(4, rot), ata_program_account |-> Acct(5, rot), system_program_account |-> Acct(6, rot) ]
       IN  /\ Returns("create_ata_spl_token", a, e, create_ata_spl_token(a.associated_account, a.funding_account, a.wallet_account, a.token_mint_account, a.token_program_account, a.ata_program_account, a.system_program_account, e.ext))
           /\ UNCHANGED world

TokenBurn ==
  /\ pc = "idle"
  /\ \E rot \in Rots, amount \in Amounts, e \in Envs :
       LET a == [ token_program |-> Acct(0, rot), burn_account |-> Acct(1, rot), mint |-> Acct(2, rot), owner |-> Acct(3, rot), burn_amount |-> amount ]
       IN  /\ Returns("token_burn", a, e, token_burn(a.token_program, a.burn_account, a.mint, a.owner, a.burn_amount, e.build, e.ext))
           /\ UNCHANGED world

TokenCloseWithAuthority ==
  /\ pc = "idle"
  /\ \E rot \in Rots, seed \in Seeds, n \in Nonces, e \in Envs :
       LET a == [ token_program |-> Acct(0, rot), close_account |-> Acct(1, rot), destination_account |-> Acct(2, rot), authority |-> Acct(3, rot), amm_seed |-> seed, nonce |-> n ]
       IN  /\ Returns("token_close_with_authority", a, e, token_close_with_authority(a.token_program, a.close_account, a.destination_account, a.authority, a.amm_seed, a.nonce, e.build, e.ext))
           /\ UNCHANGED world

TokenBurnWithAuthority ==
  /\ pc = "idle"
  /\ \E rot \in Rots, seed \in Seeds, n \in Nonces, amount \in Amounts, e \in Envs :
       LET a == [ token_program |-> Acct(0, rot), burn_account |-> Acct(1, rot), mint |-> Acct(2, rot), authority |-> Acct(3, rot), amm_seed |-> seed, nonce |-> n, burn_amount |-> amount ]
       IN  /\ Returns("token_burn_with_authority", a, e, token_burn_with_authority(a.token_program, a.burn_account, a.mint, a.authority, a.amm_seed, a.nonce, a.burn_amount, e.build, e.ext))
           /\ UNCHANGED world

TokenMintTo ==
  /\ pc = "idle"
  /\ \E rot \in Rots, seed \in Seeds, n \in Nonces, amount \in Amounts, e \in Envs :
       LET a == [ token_program |-> Acct(0, rot), mint |-> Acct(1, rot), destination |-> Acct(2, rot), authority |-> Acct(3, rot), amm_seed |-> seed, nonce |-> n, amount |-> amount ]
       IN  /\ Returns("token_mint_to", a, e, token_mint_to(a.token_program, a.mint, a.destination, a.authority, a.amm_seed, a.nonce, a.amount, e.build, e.ext))
           /\ UNCHANGED world

TokenTransfer ==
  /\ pc = "idle"
  /\ \E rot \in Rots, amount \in Amounts, e \in Envs :
       LET a == [ token_program |-> Acct(0, rot), source |-> Acct(1, rot), destination |-> Acct(2, rot), owner |-> Acct(3, rot), deposit_amount |-> amount ]
       IN  /\ Returns("token_transfer", a, e, token_transfer(a.token_program, a.source, a.destination, a.owner, a.deposit_amount, e.build, e.ext))
           /\ UNCHANGED world

TokenTransferWithAuthority ==
  /\ pc = "idle"
  /\ \E rot \in Rots, seed \in Seeds, n \in Nonces, amount \in Amounts, e \in Envs :
       LET a == [ token_program |-> Acct(0, rot), source |-> Acct(1, rot), destination |-> Acct(2, rot), authority |-> Acct(3, rot), amm_seed |-> seed, nonce |-> n, amount |-> amount ]
       IN  /\ Returns("token_transfer_with_authority", a, e, token_transfer_with_authority(a.token_program, a.source, a.destination, a.authority, a.amm_seed, a.nonce, a.amount, e.build, e.ext))
           /\ UNCHANGED world

TokenSetAuthority ==
  /\ pc = "idle"
  /\ \E rot \in Rots, seed \in Seeds, n \in Nonces, t \in AuthorityTypes, e \in Envs :
       LET a == [ token_program |-> Acct(0, rot), account |-> Acct(1, rot), authority |-> Acct(2, rot), new_authority |-> Acct(3, rot), amm_seed |-> seed, nonce |-> n, authority_type |-> t ]
       IN  /\ Returns("token_set_authority", a, e, token_set_authority(a.token_program, a.account, a.authority, a.new_authority, a.amm_seed, a.nonce, a.authority_type, e.build, e.ext))
           /\ UNCHANGED world

InvokeDexInitOpenOrders ==
  /\ pc = "idle"
  /\ \E rot \in Rots, seed \in Seeds, n \in Nonces, e \in Envs :
       LET a == [ dex_program |-> Acct(0, rot), open_orders |-> Acct(1, rot), open_orders_owner |-> Acct(2, rot), market |-> Acct(3, rot), rent_sysvar |-> Acct(4, rot), amm_seed |-> seed, nonce |-> n ]
       IN  /\ Returns("invoke_dex_init_open_orders", a, e, invoke_dex_init_open_orders(a.dex_program, a.open_orders, a.open_orders_owner, a.market, a.rent_sysvar, a.amm_seed, a.nonce, e.build, e.ext))
           /\ UNCHANGED world

InvokeDexCloseOpenOrders ==
  /\ pc = "idle"
  /\ \E rot \in Rots, seed \in Seeds, n \in Nonces, e \in Envs :
       LET a == [ dex_program |-> Acct(0, rot), open_orders |-> Acct(1, rot), open_orders_owner |-> Acct(2, rot), destination |-> Acct(3, rot), market |-> Acct(4, rot), amm_seed |-> seed, nonce |-> n ]
       IN  /\ Returns("invoke_dex_close_open_orders", a, e, invoke_dex_close_open_orders(a.dex_program, a.open_orders, a.open_orders_owner, a.destination, a.market, a.amm_seed, a.nonce, e.build, e.ext))
           /\ UNCHANGED world

\* The arguments of an order placement: the thirteen accounts, the optional
\* referral, the authority seed and the order.
OrderArgs(rot, referral, seed, n, s, q, t, cid, l) == [ dex_program |-> Acct(0, rot), market |-> Acct(1, rot), open_orders |-> Acct(2, rot), req_q |-> Acct(3, rot), event_q |-> Acct(4, rot), bids |-> Acct(5, rot), asks |-> Acct(6, rot), payer |-> Acct(7, rot), open_orders_owner |-> Acct(8, rot), coin_vault |-> Acct(9, rot), pc_vault |-> Acct(10, rot), token_program |-> Acct(11, rot), rent_account |-> Acct(12, rot), srm_account_referral |-> referral, amm_seed |-> seed, nonce |-> n, side |-> s, limit_price |-> q[1], max_coin_qty |-> q[2], max_native_pc_qty_including_fees |-> q[3], order_type |-> t, client_order_id |-> cid, limit |-> l ]

InvokeDexReplaceOrderByClientId ==
  /\ pc = "idle"
  /\ \E rot \in Rots, seed \in Seeds, n \in Nonces, s \in Sides, q \in OrderQuantities, t \in OrderTypes, cid \in ClientOrderIds, l \in Limits, e \in EnvsBuilt :
       \E referral \in Referrals(13, rot) :
         LET a == OrderArgs(rot, referral, seed, n, s, q, t, cid, l)
         IN  /\ Returns("invoke_dex_replace_order_by_client_id", a, e, invoke_dex_replace_order_by_client_id(a.dex_program, a.market, a.open_orders, a.req_q, a.event_q, a.bids, a.asks, a.payer, a.open_orders_owner, a.coin_vault, a.pc_vault, a.token_program, a.rent_account, a.srm_account_referral, a.amm_seed, a.nonce, a.side, a.limit_price, a.max_coin_qty, a.max_native_pc_qty_including_fees, a.order_type, a.client_order_id, a.limit, e.ext))
             /\ UNCHANGED world

InvokeDexNewOrderV3 ==
  /\ pc = "idle"
  /\ \E rot \in Rots, seed \in Seeds, n \in Nonces, s \in Sides, q \in OrderQuantities, t \in OrderTypes, cid \in ClientOrderIds, l \in Limits, e \in Envs :
       \E referral \in Referrals(13, rot) :
         LET a == OrderArgs(rot, referral, seed, n, s, q, t, cid, l)
         IN  /\ Returns("invoke_dex_new_order_v3", a, e, invoke_dex_new_order_v3(a.dex_program, a.market, a.open_orders, a.req_q, a.event_q, a.bids, a.asks, a.payer, a.open_orders_owner, a.coin_vault, a.pc_vault, a.token_program, a.rent_account, a.srm_account_referral, a.amm_seed, a.nonce, a.side, a.limit_price, a.max_coin_qty, a.max_native_pc_qty_including_fees, a.order_type, a.client_order_id, a.limit, e.build, e.ext))
             /\ UNCHANGED world

InvokeDexCancelOrderV2 ==
  /\ pc = "idle"
  /\ \E rot \in Rots, seed \in Seeds, n \in Nonces, s \in Sides, id \in OrderIds, e \in Envs :
       LET a == [ dex_program |-> Acct(0, rot), market |-> Acct(1, rot), bids |-> Acct(2, rot), asks |-> Acct(3, rot), open_orders |-> Acct(4, rot), open_orders_owner |-> Acct(5, rot), event_q |-> Acct(6, rot), amm_seed |-> seed, nonce |-> n, side |-> s, order_id |-> id ]
       IN  /\ Returns("invoke_dex_cancel_order_v2", a, e, invoke_dex_cancel_order_v2(a.dex_program, a.market, a.bids, a.asks, a.open_orders, a.open_orders_owner, a.event_q, a.amm_seed, a.nonce, a.side, a.order_id, e.build, e.ext))
           /\ UNCHANGED world

InvokeDexCancelOrdersByClientOrderIds ==
  /\ pc = "idle"
  /\ \E rot \in Rots, seed \in Seeds, n \in Nonces, ids \in ClientOrderIdArrays, e \in Envs :
       LET a == [ dex_program |-> Acct(0, rot), market |-> Acct(1, rot), bids |-> Acct(2, rot), asks |-> Acct(3, rot), open_orders |-> Acct(4, rot), open_orders_owner |-> Acct(5, rot), event_q |-> Acct(6, rot), amm_seed |-> seed, nonce |-> n, client_order_ids |-> ids ]
       IN  /\ Returns("invoke_dex_cancel_orders_by_client_order_ids", a, e, invoke_dex_cancel_orders_by_client_order_ids(a.dex_program, a.market, a.bids, a.asks, a.open_orders, a.open_orders_owner, a.event_q, a.amm_seed, a.nonce, a.client_order_ids, e.build, e.ext))
           /\ UNCHANGED world

InvokeDexSettleFunds ==
  /\ pc = "idle"
  /\ \E rot \in Rots, seed \in Seeds, n \in Nonces, e \in Envs :
       \E referrer \in Referrals(10, rot) :
         LET a == [ dex_program |-> Acct(0, rot), market |-> Acct(1, rot), open_orders |-> Acct(2, rot), owner |-> Acct(3, rot), coin_vault |-> Acct(4, rot), pc_vault |-> Acct(5, rot), coin_wallet |-> Acct(6, rot), pc_wallet |-> Acct(7, rot), vault_signer |-> Acct(8, rot), spl_token_program |-> Acct(9, rot), referrer_pc_wallet |-> referrer, amm_seed |-> seed, nonce |-> n ]
         IN  /\ Returns("invoke_dex_settle_funds", a, e, invoke_dex_settle_funds(a.dex_program, a.market, a.open_orders, a.owner, a.coin_vault, a.pc_vault, a.coin_wallet, a.pc_wallet, a.vault_signer, a.spl_token_program, a.referrer_pc_wallet, a.amm_seed, a.nonce, e.build, e.ext))
             /\ UNCHANGED world

Next ==
  \/ CreateAtaSplToken
  \/ TokenBurn
  \/ TokenCloseWithAuthority
  \/ TokenBurnWithAuthority
  \/ TokenMintTo
  \/ TokenTransfer
  \/ TokenTransferWithAuthority
  \/ TokenSetAuthority
  \/ InvokeDexInitOpenOrders
  \/ InvokeDexCloseOpenOrders
  \/ InvokeDexReplaceOrderByClientId
  \/ InvokeDexNewOrderV3
  \/ InvokeDexCancelOrderV2
  \/ InvokeDexCancelOrdersByClientOrderIds
  \/ InvokeDexSettleFunds
  \/ Return

Spec == Init /\ [][Next]_vars

(***************************************************************************)
(* The enclosing runtime, on a cross-program call: every account the       *)
(* instruction names is among the handles passed, and every account it     *)
(* marks as signer has signed the transaction or is the identity derived   *)
(* from one of the signer-seed sets.  The error it answers, or "none".     *)
(***************************************************************************)
Wallet == Pubkey(3)
TransactionSigners == { Wallet }

Passed(c, k) == \E j \in 1 .. Len(c.accounts) : c.accounts[j].key = k
Signed(c, k) == k \in TransactionSigners \/ \E j \in 1 .. Len(c.signers) : create_program_address(c.signers[j]) = k

Runtime(c) ==
  IF \E i \in 1 .. Len(c.ix.accounts) : ~Passed(c, c.ix.accounts[i].pubkey) THEN "MissingAccount"
  ELSE IF \E i \in 1 .. Len(c.ix.accounts) : c.ix.accounts[i].is_signer /\ ~Signed(c, c.ix.accounts[i].pubkey) THEN "PrivilegeEscalation"
  ELSE "none"

(***************************************************************************)
(* The token-custody service, on Transfer: it moves `amount` units from    *)
(* the first account to the second; it fails if the amount exceeds the     *)
(* source balance or the authority is not the source's registered owner.   *)
(* [ret, bal]: its answer and the balances after.                          *)
(***************************************************************************)
CustodyTransfer(c, b, o) ==
  LET source == c.ix.accounts[1].pubkey
      destination == c.ix.accounts[2].pubkey
      authority == c.ix.accounts[3].pubkey
      amount == c.ix.data.amount
  IN  IF Runtime(c) # "none" THEN [ ret |-> Err(Runtime(c)), bal |-> b ]
      ELSE IF source \notin DOMAIN b \/ destination \notin DOMAIN b THEN [ ret |-> Err("InvalidAccountData"), bal |-> b ]
      ELSE IF amount > b[source] THEN [ ret |-> Err("InsufficientFunds"), bal |-> b ]
      ELSE IF o[source] # authority THEN [ ret |-> Err("OwnerMismatch"), bal |-> b ]
      ELSE IF source = destination THEN [ ret |-> Ok, bal |-> b ]
      ELSE [ ret |-> Ok, bal |-> [ b EXCEPT ![source] = @ - amount, ![destination] = @ + amount ] ]

(***************************************************************************)
(* SpecToken: the two transfer operations against the custody service.     *)
(* Two token accounts, each registered to the wallet or to the program's   *)
(* derived identity; the wallet has signed the transaction.                *)
(***************************************************************************)
TokenAccounts == { Pubkey(1), Pubkey(2) }
AuthoritySeed == << 97, 109, 109 >>
ProgramAuthority == create_program_address(<< AuthoritySeed, << 0 >> >>)
TokenOwners == { Wallet, ProgramAuthority }

InitToken ==
  /\ pc = "idle"
  /\ op = "none"
  /\ args = NoArgs
  /\ env = NoEnv
  /\ calls = << >>
  /\ ret = Ok
  /\ derived = None
  /\ bal \in [ TokenAccounts -> 0 .. MaxBal ]
  /\ registered_owner \in [ TokenAccounts -> TokenOwners ]
  /\ book = << >>
  /\ before = None
  /\ trip = None
  /\ NoTransaction

\* The operation `o` with arguments `a`, its builder answering `build`, run
\* against the custody service: r(ext) is what it issues and returns when the
\* service answers ext.
CustodyReturns(o, a, build, dispatched, r) ==
  /\ Returns(o, a, [ build |-> build, ext |-> IF dispatched = << >> THEN Ok ELSE CustodyTransfer(dispatched[1], bal, registered_owner).ret ], r)
  /\ bal' = IF dispatched = << >> THEN bal ELSE CustodyTransfer(dispatched[1], bal, registered_owner).bal
  /\ before' = Some(bal)
  /\ UNCHANGED << registered_owner, book, trip, tx >>

CustodyTokenTransfer ==
  /\ pc = "idle"
  /\ \E s \in TokenAccounts, d \in TokenAccounts, w \in TokenOwners, amount \in Amounts, build \in BuildResults :
       LET a == [ token_program |-> AccountInfo(TokenProgramId), source |-> AccountInfo(s), destination |-> AccountInfo(d), owner |-> AccountInfo(w), deposit_amount |-> amount ]
           dispatched == token_transfer(a.token_program, a.source, a.destination, a.owner, a.deposit_amount, build, Ok).calls
           answer == IF dispatched = << >> THEN Ok ELSE CustodyTransfer(dispatched[1], bal, registered_owner).ret
       IN  CustodyReturns("token_transfer", a, build, dispatched, token_transfer(a.token_program, a.source, a.destination, a.owner, a.deposit_amount, build, answer))

CustodyTokenTransferWithAuthority ==
  /\ pc = "idle"
  /\ \E s \in TokenAccounts, d \in TokenAccounts, w \in TokenOwners, n \in Nonces, amount \in Amounts, build \in BuildResults :
       LET a == [ token_program |-> AccountInfo(TokenProgramId), source |-> AccountInfo(s), destination |-> AccountInfo(d), authority |-> AccountInfo(w), amm_seed |-> AuthoritySeed, nonce |-> n, amount |-> amount ]
           dispatched == token_transfer_with_authority(a.token_program, a.source, a.destination, a.authority, a.amm_seed, a.nonce, a.amount, build, Ok).calls
           answer == IF dispatched = << >> THEN Ok ELSE CustodyTransfer(dispatched[1], bal, registered_owner).ret
       IN  CustodyReturns("token_transfer_with_authority", a, build, dispatched, token_transfer_with_authority(a.token_program, a.source, a.destination, a.authority, a.amm_seed, a.nonce, a.amount, build, answer))

NextToken ==
  \/ CustodyTokenTransfer
  \/ CustodyTokenTransferWithAuthority
  \/ CustodyReturn

SpecToken == InitToken /\ [][NextToken]_vars

(***************************************************************************)
(* The order-book venue, on the three instructions that place and cancel   *)
(* by client order id.  The book is the bag of the resting orders; the     *)
(* orders of the runs below never cross (bids at 1, asks at 3), so that    *)
(* none is matched.  [ret, book]: the venue's answer and the book after.   *)
(***************************************************************************)
Resting(c) == [ open_orders |-> c.ix.accounts[2].pubkey, client_order_id |-> c.ix.data.order.client_order_id, side |-> c.ix.data.order.side, limit_price |-> c.ix.data.order.limit_price, max_coin_qty |-> c.ix.data.order.max_coin_qty ]

\* An order that crosses nothing rests, unless it is immediate-or-cancel.
VenuePlace(b, c) == IF c.ix.data.order.order_type = "ImmediateOrCancel" THEN b ELSE b (+) SetToBag({ Resting(c) })

\* The orders of `open_orders` carrying one of `ids` leave the book; an id
\* that none of them carries is passed over.
VenueCancel(b, open_orders, ids) == [ o \in { x \in DOMAIN b : ~(x.open_orders = open_orders /\ x.client_order_id \in ids) } |-> b[o] ]

Venue(c, b) ==
  IF Runtime(c) # "none" THEN [ ret |-> Err(Runtime(c)), book |-> b ]
  ELSE IF c.ix.data.tag = "NewOrderV3" THEN [ ret |-> Ok, book |-> VenuePlace(b, c) ]
  ELSE IF c.ix.data.tag = "ReplaceOrderByClientId" THEN [ ret |-> Ok, book |-> VenuePlace(VenueCancel(b, c.ix.accounts[2].pubkey, { c.ix.data.order.client_order_id }), c) ]
  ELSE IF c.ix.data.tag = "CancelOrdersByClientIds" THEN [ ret |-> Ok, book |-> VenueCancel(b, c.ix.accounts[4].pubkey, { c.ix.data.client_order_ids[i] : i \in DOMAIN c.ix.data.client_order_ids }) ]
  ELSE [ ret |-> Err("InvalidInstruction"), book |-> b ]

(***************************************************************************)
(* SpecDex: new_order, replace_order_by_client_id and                      *)
(* cancel_orders_by_client_ids against the venue.  Two open-orders         *)
(* accounts of the program's derived identity; the book starts empty and   *)
(* holds at most MaxOrders orders.                                         *)
(***************************************************************************)
OpenOrdersAccounts == { AccountInfo(Pubkey(2)), AccountInfo(Pubkey(14)) }
\* Bids below asks.
UncrossedOrders == { << "Bid", << 1, 2, 3 >> >>, << "Ask", << 3, 1, 2 >> >> }

InitDex ==
  /\ pc = "idle"
  /\ op = "none"
  /\ args = NoArgs
  /\ env = NoEnv
  /\ calls = << >>
  /\ ret = Ok
  /\ derived = None
  /\ bal = << >>
  /\ registered_owner = << >>
  /\ book = EmptyBag
  /\ before = None
  /\ trip = None
  /\ NoTransaction

\* The operation `o` with arguments `a` run against the venue: `v` is what
\* the venue makes of the call it issues, `r` what it issues and returns.
VenueReturns(o, a, v, r) ==
  /\ BagCardinality(v.book) <= MaxOrders
  /\ Returns(o, a, [ build |-> "Ok", ext |-> v.ret ], r)
  /\ book' = v.book
  /\ before' = Some(book)
  /\ UNCHANGED << bal, registered_owner, trip, tx >>

DexOrderArgs(oo, referral, n, s, t, cid) == [ dex_program |-> Acct(0, 0), market |-> Acct(1, 0), open_orders |-> oo, req_q |-> Acct(3, 0), event_q |-> Acct(4, 0), bids |-> Acct(5, 0), asks |-> Acct(6, 0), payer |-> Acct(7, 0), open_orders_owner |-> AccountInfo(ProgramAuthority), coin_vault |-> Acct(9, 0), pc_vault |-> Acct(10, 0), token_program |-> AccountInfo(TokenProgramId), rent_account |-> AccountInfo(RentSysvarId), srm_account_referral |-> referral, amm_seed |-> AuthoritySeed, nonce |-> n, side |-> s[1], limit_price |-> s[2][1], max_coin_qty |-> s[2][2], max_native_pc_qty_including_fees |-> s[2][3], order_type |-> t, client_order_id |-> cid, limit |-> 65535 ]

VenueNewOrder ==
  /\ pc = "idle"
  /\ \E oo \in OpenOrdersAccounts, referral \in Referrals(13, 0), n \in Nonces, s \in UncrossedOrders, t \in OrderTypes, cid \in ClientOrderIds :
       LET a == DexOrderArgs(oo, referral, n, s, t, cid)
       IN  \E v \in { Venue(invoke_dex_new_order_v3(a.dex_program, a.market, a.open_orders, a.req_q, a.event_q, a.bids, a.asks, a.payer, a.open_orders_owner, a.coin_vault, a.pc_vault, a.token_program, a.rent_account, a.srm_account_referral, a.amm_seed, a.nonce, a.side, a.limit_price, a.max_coin_qty, a.max_native_pc_qty_including_fees, a.order_type, a.client_order_id, a.limit, "Ok", Ok).calls[1], book) } :
             VenueReturns("invoke_dex_new_order_v3", a, v, invoke_dex_new_order_v3(a.dex_program, a.market, a.open_orders, a.req_q, a.event_q, a.bids, a.asks, a.payer, a.open_orders_owner, a.coin_vault, a.pc_vault, a.token_program, a.rent_account, a.srm_account_referral, a.amm_seed, a.nonce, a.side, a.limit_price, a.max_coin_qty, a.max_native_pc_qty_including_fees, a.order_type, a.client_order_id, a.limit, "Ok", v.ret))

VenueReplaceOrderByClientId ==
  /\ pc = "idle"
  /\ \E oo \in OpenOrdersAccounts, referral \in Referrals(13, 0), n \in Nonces, s \in UncrossedOrders, t \in OrderTypes, cid \in ClientOrderIds :
       LET a == DexOrderArgs(oo, referral, n, s, t, cid)
       IN  \E v \in { Venue(invoke_dex_replace_order_by_client_id(a.dex_program, a.market, a.open_orders, a.req_q, a.event_q, a.bids, a.asks, a.payer, a.open_orders_owner, a.coin_vault, a.pc_vault, a.token_program, a.rent_account, a.srm_account_referral, a.amm_seed, a.nonce, a.side, a.limit_price, a.max_coin_qty, a.max_native_pc_qty_including_fees, a.order_type, a.client_order_id, a.limit, Ok).calls[1], book) } :
             VenueReturns("invoke_dex_replace_order_by_client_id", a, v, invoke_dex_replace_order_by_client_id(a.dex_program, a.market, a.open_orders, a.req_q, a.event_q, a.bids, a.asks, a.payer, a.open_orders_owner, a.coin_vault, a.pc_vault, a.token_program, a.rent_account, a.srm_account_referral, a.amm_seed, a.nonce, a.side, a.limit_price, a.max_coin_qty, a.max_native_pc_qty_including_fees, a.order_type, a.client_order_id, a.limit, v.ret))

VenueCancelOrdersByClientOrderIds ==
  /\ pc = "idle"
  /\ \E oo \in OpenOrdersAccounts, n \in Nonces, ids \in ClientOrderIdArrays :
       LET a == [ dex_program |-> Acct(0, 0), market |-> Acct(1, 0), bids |-> Acct(5, 0), asks |-> Acct(6, 0), open_orders |-> oo, open_orders_owner |-> AccountInfo(ProgramAuthority), event_q |-> Acct(4, 0), amm_seed |-> AuthoritySeed, nonce |-> n, client_order_ids |-> ids ]
       IN  \E v \in { Venue(invoke_dex_cancel_orders_by_client_order_ids(a.dex_program, a.market, a.bids, a.asks, a.open_orders, a.open_orders_owner, a.event_q, a.amm_seed, a.nonce, a.client_order_ids, "Ok", Ok).calls[1], book) } :
             VenueReturns("invoke_dex_cancel_orders_by_client_order_ids", a, v, invoke_dex_cancel_orders_by_client_order_ids(a.dex_program, a.market, a.bids, a.asks, a.open_orders, a.open_orders_owner, a.event_q, a.amm_seed, a.nonce, a.client_order_ids, "Ok", v.ret))

NextDex ==
  \/ VenueNewOrder
  \/ VenueReplaceOrderByClientId
  \/ VenueCancelOrdersByClientOrderIds
  \/ VenueReturn

SpecDex == InitDex /\ [][NextDex]_vars

(***************************************************************************)
(* SpecTx: transactions through the entry point.  The processor calls the  *)
(* two transfer operations one after another; each hands its call to the   *)
(* runtime, the custody service carries it out, and the operation returns  *)
(* the answer; the processor returns the first error, process_instruction  *)
(* passes the processor's result to the runtime, and the runtime keeps the *)
(* transaction's changes or discards them.                                 *)
(***************************************************************************)

\* A slip: the error logged and success returned.
process_instruction_swallowing(processed) ==
  IF ~processed.ok
  THEN << [ do |-> "print", value |-> processed ], [ do |-> "return", value |-> Ok ] >>
  ELSE << [ do |-> "return", value |-> Ok ] >>

\* A slip: every error returned as the program's generic one.
process_instruction_rewrapped(processed) ==
  IF ~processed.ok
  THEN << [ do |-> "print", value |-> processed ], [ do |-> "return", value |-> Err("Custom(0)") ] >>
  ELSE << [ do |-> "return", value |-> Ok ] >>

\* What the entry point does with the result `processed` of
\* Processor::process, in order.
process_instruction(processed) ==
  IF ~processed.ok
  THEN << [ do |-> "print", value |-> processed ], [ do |-> "return", value |-> Err(processed.err) ] >>
  ELSE << [ do |-> "return", value |-> Ok ] >>

\* What the entry point returned.
Returned(events) == events[Len(events)].value

\* The errors of the processor's own (a rejected instruction).
ProcessorResults == { Ok, Err("Custom(1)") }

\* A slip: the caller let go on while its invocation is in progress.
InvokeReturns_detached(fl, k) == TRUE

\* The runtime's contract for an invocation: it returns to the calling
\* operation when the collaborator has returned from the call issued at k.
InvokeReturns(fl, k) == \A f \in fl : f.k # k

\* The runtime's contract for a transaction: the changes made while it ran
\* are kept when the program returns success and discarded when it returns
\* an error.
Transaction(result, working, snapshot) ==
  IF result.ok THEN [ status |-> "committed", bal |-> working ] ELSE [ status |-> "aborted", bal |-> snapshot ]

\* The transfer operation `o` on arguments `a`.
Transfer(o, a, build, ext) ==
  IF o = "token_transfer"
  THEN token_transfer(a.token_program, a.source, a.destination, a.owner, a.deposit_amount, build, ext)
  ELSE token_transfer_with_authority(a.token_program, a.source, a.destination, a.authority, a.amm_seed, a.nonce, a.amount, build, ext)

\* The answer to the invocation issued at k: the collaborator's, once it has
\* returned.
Answer(k) ==
  LET done == { i \in 1 .. Len(journal) : journal[i].k = k }
  IN  IF done = { } THEN Ok ELSE journal[CHOOSE i \in done : TRUE].ret

TransferPairs == { << Pubkey(1), Pubkey(2) >>, << Pubkey(2), Pubkey(1) >> }

InitTx ==
  /\ pc = "idle"
  /\ op = "none"
  /\ args = NoArgs
  /\ env = NoEnv
  /\ calls = << >>
  /\ ret = Ok
  /\ derived = None
  /\ bal \in [ TokenAccounts -> 0 .. MaxBal ]
  /\ registered_owner = [ t \in TokenAccounts |-> IF t = Pubkey(1) THEN Wallet ELSE ProgramAuthority ]
  /\ book = << >>
  /\ before = None
  /\ trip = None
  /\ NoTransaction

\* The runtime calls the entry point with a transaction's instruction.
TxBegin ==
  /\ txpc # "processing"
  /\ txpc' = "processing"
  /\ before' = Some(bal)
  /\ issued' = 0
  /\ inflight' = { }
  /\ journal' = << >>
  /\ entry' = None
  /\ UNCHANGED << layer, derived, bal, registered_owner, book, trip >>

\* The processor calls the operation `o`: it builds its instruction and, if
\* that succeeds, hands the call to the runtime.
TxCalls(o, a, build) ==
  LET r == Transfer(o, a, build, Ok)
  IN  /\ op' = o
      /\ args' = a
      /\ env' = [ build |-> build, ext |-> Ok ]
      /\ calls' = r.calls
      /\ ret' = r.ret
      /\ pc' = IF r.calls = << >> THEN "returned" ELSE "invoking"
      /\ issued' = issued + Len(r.calls)
      /\ inflight' = inflight \cup { [ k |-> issued + j, call |-> r.calls[j] ] : j \in 1 .. Len(r.calls) }
      /\ UNCHANGED << derived, bal, registered_owner, book, before, trip, txpc, journal, entry >>

TxTokenTransfer ==
  /\ txpc = "processing"
  /\ pc = "idle"
  /\ issued < MaxCalls
  /\ \E sd \in TransferPairs, amount \in Amounts, build \in BuildResults :
       TxCalls("token_transfer", [ token_program |-> AccountInfo(TokenProgramId), source |-> AccountInfo(sd[1]), destination |-> AccountInfo(sd[2]), owner |-> AccountInfo(Wallet), deposit_amount |-> amount ], build)

TxTokenTransferWithAuthority ==
  /\ txpc = "processing"
  /\ pc = "idle"
  /\ issued < MaxCalls
  /\ \E sd \in TransferPairs, n \in Nonces, amount \in Amounts, build \in BuildResults :
       TxCalls("token_transfer_with_authority", [ token_program |-> AccountInfo(TokenProgramId), source |-> AccountInfo(sd[1]), destination |-> AccountInfo(sd[2]), authority |-> AccountInfo(ProgramAuthority), amm_seed |-> AuthoritySeed, nonce |-> n, amount |-> amount ], build)

\* The custody service carries out an invocation in progress and returns.
TxCustody ==
  /\ txpc = "processing"
  /\ \E f \in inflight :
       LET t == CustodyTransfer(f.call, bal, registered_owner)
       IN  /\ bal' = t.bal
           /\ journal' = Append(journal, [ k |-> f.k, ret |-> t.ret, bal |-> t.bal ])
           /\ inflight' = inflight \ { f }
  /\ UNCHANGED << layer, derived, registered_owner, book, before, trip, txpc, issued, entry >>

\* invoke_signed returns to the operation, which returns its answer.
TxInvokeReturns ==
  /\ txpc = "processing"
  /\ pc = "invoking"
  /\ InvokeReturns(inflight, issued)
  /\ pc' = "returned"
  /\ env' = [ env EXCEPT !.ext = Answer(issued) ]
  /\ ret' = Transfer(op, args, env.build, Answer(issued)).ret
  /\ UNCHANGED << op, args, calls, derived, world >>

\* The operation succeeded and the processor goes on.
TxContinue ==
  /\ txpc = "processing"
  /\ pc = "returned"
  /\ ret.ok
  /\ Drop
  /\ UNCHANGED << derived, world >>

\* Processor::process returns `processed`, process_instruction returns, and
\* the runtime ends the transaction.
TxEnds(processed) ==
  LET events == process_instruction(processed)
      t == Transaction(Returned(events), bal, before.val)
  IN  /\ pc' = "idle"
      /\ op' = "none"
      /\ args' = NoArgs
      /\ env' = NoEnv
      /\ calls' = << >>
      /\ ret' = Ok
      /\ entry' = Some([ processed |-> processed, events |-> events ])
      /\ txpc' = t.status
      /\ bal' = t.bal
      /\ UNCHANGED << derived, registered_owner, book, before, trip, issued, inflight, journal >>

\* The operation failed and the processor returns its error.
TxFail ==
  /\ txpc = "processing"
  /\ pc = "returned"
  /\ ~ret.ok
  /\ TxEnds(ret)

\* The processor returns between two operations: its work is done, or it
\* rejects the instruction.
TxReturn ==
  /\ txpc = "processing"
  /\ pc = "idle"
  /\ \E processed \in ProcessorResults : TxEnds(processed)

NextTx ==
  \/ TxBegin
  \/ TxTokenTransfer
  \/ TxTokenTransferWithAuthority
  \/ TxCustody
  \/ TxInvokeReturns
  \/ TxContinue
  \/ TxFail
  \/ TxReturn

SpecTx == InitTx /\ [][NextTx]_vars


(***************************************************************************)
(* Claims checked under Spec.                                              *)
(***************************************************************************)
OrderOps == { "invoke_dex_new_order_v3", "invoke_dex_replace_order_by_client_id" }
UnsignedOps == { "create_ata_spl_token", "token_transfer", "token_burn" }
SigningOps == { "token_transfer_with_authority", "token_burn_with_authority", "token_mint_to", "token_close_with_authority", "token_set_authority", "invoke_dex_init_open_orders", "invoke_dex_close_open_orders", "invoke_dex_new_order_v3", "invoke_dex_replace_order_by_client_id", "invoke_dex_cancel_order_v2", "invoke_dex_cancel_orders_by_client_order_ids", "invoke_dex_settle_funds" }

\* C1: the account list invoke_dex_settle_funds hands to the invocation is
\* [dex_program, market, open_orders, owner, coin_vault, pc_vault,
\* coin_wallet, pc_wallet, vault_signer, token_program], 10 entries, when no
\* referrer is supplied, and these 10 followed by the referrer, 11 entries,
\* when one is.
C1_SettleFundsAccountList ==
  (pc = "returned" /\ op = "invoke_dex_settle_funds" /\ calls # << >>) =>
    LET fixed == << args.dex_program, args.market, args.open_orders, args.owner, args.coin_vault, args.pc_vault, args.coin_wallet, args.pc_wallet, args.vault_signer, args.spl_token_program >>
    IN  IF args.referrer_pc_wallet.some
        THEN Len(calls[1].accounts) = 11 /\ calls[1].accounts = Append(fixed, args.referrer_pc_wallet.val)
        ELSE Len(calls[1].accounts) = 10 /\ calls[1].accounts = fixed

C1_Witness ==
  /\ pc = "returned" /\ op = "invoke_dex_settle_funds" /\ calls # << >>
  /\ args.referrer_pc_wallet.some
  /\ Len(calls[1].accounts) = 11
  /\ calls[1].accounts[11] = args.referrer_pc_wallet.val

\* C2: new_order and replace_order_by_client_id pass the 13 fixed accounts,
\* followed by the referral exactly when one is supplied (14 entries), never
\* a placeholder in its place; and with the referral absent the call is
\* still dispatched: the operation fails only when its builder or the
\* collaborator fails.
C2_OrderReferralAppended ==
  (pc = "returned" /\ op \in OrderOps) =>
    LET fixed == << args.dex_program, args.market, args.open_orders, args.req_q, args.event_q, args.bids, args.asks, args.payer, args.open_orders_owner, args.coin_vault, args.pc_vault, args.token_program, args.rent_account >>
    IN  /\ env.build = "Ok" => Len(calls) = 1
        /\ calls # << >> =>
             IF args.srm_account_referral.some
             THEN Len(calls[1].accounts) = 14 /\ calls[1].accounts = Append(fixed, args.srm_account_referral.val)
             ELSE Len(calls[1].accounts) = 13 /\ calls[1].accounts = fixed
        /\ (~args.srm_account_referral.some /\ ~ret.ok) => (env.build # "Ok" \/ ~env.ext.ok)

C2_Witness ==
  /\ pc = "returned" /\ op = "invoke_dex_new_order_v3"
  /\ ~args.srm_account_referral.some
  /\ Len(calls) = 1 /\ Len(calls[1].accounts) = 13
  /\ ret.ok

C4_OneCallResultUnchanged ==
  (pc = "returned" /\ env.build = "Ok") => (Len(calls) = 1 /\ ret = env.ext)

C4_Witness ==
  /\ pc = "returned" /\ op = "invoke_dex_cancel_order_v2" /\ env.build = "Ok"
  /\ Len(calls) = 1
  /\ ret = Err("InsufficientFunds")

\* C5: two derivations from the same (seed, nonce), by any two operations at
\* two points of a run, yield the same signer-seed set and the same
\* identity.
C5_DerivationDeterministic ==
  (pc = "returned" /\ Derivation.some /\ derived.some /\ Derivation.val.pair = derived.val.pair) =>
    (Derivation.val.seeds = derived.val.seeds /\ Derivation.val.identity = derived.val.identity)

C5_Witness ==
  /\ pc = "returned" /\ op = "token_burn_with_authority" /\ Derivation.some /\ derived.some
  /\ Derivation.val.pair = derived.val.pair
  /\ args.burn_amount > 0

\* C8: the order new_order and replace_order_by_client_id dispatch carries
\* self-trade behaviour CancelProvide and expiry i64::MAX, whatever the
\* caller's side, prices, quantities, order type, client order id and limit.
C8_OrderPolicyFixed ==
  (pc = "returned" /\ op \in OrderOps /\ calls # << >>) =>
    /\ calls[1].ix.data.order.self_trade_behavior = "CancelProvide"
    /\ calls[1].ix.data.order.max_ts = I64_MAX

C8_Witness ==
  /\ pc = "returned" /\ op = "invoke_dex_replace_order_by_client_id" /\ calls # << >>
  /\ args.order_type = "ImmediateOrCancel" /\ args.side = "Ask" /\ args.limit = 0
  /\ calls[1].ix.data.order.self_trade_behavior = "CancelProvide"

(***************************************************************************)
(* Claims checked under SpecToken.                                         *)
(***************************************************************************)
\* The returned transfer was dispatched in the name of the registered owner
\* of its source, whose signature the call carries.
Authorised ==
  /\ calls # << >>
  /\ Runtime(calls[1]) = "none"
  /\ registered_owner[args.source.key] = (IF op = "token_transfer" THEN args.owner.key ELSE args.authority.key)

C7_TransferOverBalanceFails ==
  (pc = "returned" /\ op \in Transfers /\ before.some /\ Amount(op, args) > before.val[args.source.key]) =>
    /\ ~ret.ok
    /\ calls # << >> => ret = env.ext
    /\ bal = before.val

C7_Witness ==
  /\ pc = "returned" /\ op = "token_transfer_with_authority" /\ before.some
  /\ args.amount > before.val[args.source.key]
  /\ registered_owner[args.source.key] = args.authority.key
  /\ ret = Err("InsufficientFunds")
  /\ bal = before.val

(***************************************************************************)
(* Claims checked under SpecDex.                                           *)
(***************************************************************************)
\* The client order ids of the returned batch cancel.
CancelledIds == { args.client_order_ids[i] : i \in DOMAIN args.client_order_ids }
\* The orders of the book `b` that the returned operation's open-orders
\* account owns and that carry one of `ids`.
Own(b, ids) == { x \in DOMAIN b : x.open_orders = args.open_orders.key /\ x.client_order_id \in ids }

\* C9: cancel_orders_by_client_ids dispatches exactly 8 client-id slots, the
\* caller's; it fails only when the venue refuses the call for its accounts
\* or signature, never for an id that no live order of the open-orders
\* account carries; when it succeeds, the account's orders carrying one of
\* the ids have left the book and every other order is as it was.
C9_CancelIgnoresUnmatchedIds ==
  (pc = "returned" /\ op = "invoke_dex_cancel_orders_by_client_order_ids" /\ calls # << >> /\ before.some) =>
    /\ Len(calls[1].ix.data.client_order_ids) = 8
    /\ calls[1].ix.data.client_order_ids = args.client_order_ids
    /\ ~ret.ok => Runtime(calls[1]) # "none"
    /\ ret.ok =>
         /\ DOMAIN book = DOMAIN before.val \ Own(before.val, CancelledIds)
         /\ \A x \in DOMAIN book : book[x] = before.val[x]

C9_Witness ==
  /\ pc = "returned" /\ op = "invoke_dex_cancel_orders_by_client_order_ids" /\ calls # << >> /\ before.some
  /\ ret.ok
  /\ \E id \in CancelledIds : Own(before.val, { id }) = { }
  /\ Own(before.val, CancelledIds) # { }
  /\ DOMAIN book # { }

\* C10: replace_order_by_client_id, called when the open-orders account has
\* no resting order of that client order id, dispatches what new_order with
\* the same arguments dispatches but for the operation code (same account
\* list, same account metas, same order payload, same signer seeds), gets
\* the venue's answer to that, and leaves the book as that would.
C10_ReplaceWithoutRestingIsNewOrder ==
  (pc = "returned" /\ op = "invoke_dex_replace_order_by_client_id" /\ calls # << >> /\ before.some /\ Own(before.val, { args.client_order_id }) = { }) =>
    LET n == invoke_dex_new_order_v3(args.dex_program, args.market, args.open_orders, args.req_q, args.event_q, args.bids, args.asks, args.payer, args.open_orders_owner, args.coin_vault, args.pc_vault, args.token_program, args.rent_account, args.srm_account_referral, args.amm_seed, args.nonce, args.side, args.limit_price, args.max_coin_qty, args.max_native_pc_qty_including_fees, args.order_type, args.client_order_id, args.limit, "Ok", Ok).calls[1]
    IN  /\ calls[1].accounts = n.accounts
        /\ calls[1].signers = n.signers
        /\ calls[1].ix.data.order = n.ix.data.order
        /\ calls[1].ix.data.tag # n.ix.data.tag
        /\ calls[1].ix = [ n.ix EXCEPT !.data.tag = "ReplaceOrderByClientId" ]
        /\ ret = Venue(n, before.val).ret
        /\ book = Venue(n, before.val).book

C10_Witness ==
  /\ pc = "returned" /\ op = "invoke_dex_replace_order_by_client_id" /\ calls # << >> /\ before.some
  /\ Own(before.val, { args.client_order_id }) = { }
  /\ DOMAIN before.val # { }
  /\ args.order_type = "Limit" /\ args.srm_account_referral.some
  /\ ret.ok
  /\ BagCardinality(book) = BagCardinality(before.val) + 1

(***************************************************************************)
(* Further claims checked under Spec.                                      *)
(***************************************************************************)
\* The account list the custody protocol fixes for the returned operation,
\* of the handles it was called with.
CustodyAccounts ==
  CASE op \in Transfers -> << args.source, args.destination, IF op = "token_transfer" THEN args.owner ELSE args.authority, args.token_program >>
    [] op = "token_mint_to" -> << args.mint, args.destination, args.authority, args.token_program >>
    [] op = "token_burn" -> << args.burn_account, args.mint, args.owner, args.token_program >>
    [] op = "token_burn_with_authority" -> << args.burn_account, args.mint, args.authority, args.token_program >>
    [] op = "token_close_with_authority" -> << args.close_account, args.destination_account, args.authority, args.token_program >>
    [] op = "token_set_authority" -> << args.account, args.authority, args.token_program >>
    [] op = "create_ata_spl_token" -> << args.associated_account, args.funding_account, args.wallet_account, args.token_mint_account, args.token_program_account, args.ata_program_account, args.system_program_account >>

CustodyOps == Transfers \cup { "token_mint_to", "token_burn", "token_burn_with_authority", "token_close_with_authority", "token_set_authority", "create_ata_spl_token" }

\* C14: every token-custody operation hands its invocation the account list
\* of its protocol, in that order, whatever its amounts, seed and nonce:
\* [source, destination, owner/authority, token_program] for the transfers,
\* [mint, destination, authority, token_program] for mint_to, [burn_account,
\* mint, owner/authority, token_program] for the burns, [close_account,
\* destination, authority, token_program] for close, [account,
\* current_authority, token_program] for set_authority and [associated,
\* funding, wallet, mint, token_program, account_factory, ledger_system] for
\* create_associated_account.
C14_CustodyAccountOrder ==
  (pc = "returned" /\ op \in CustodyOps /\ calls # << >>) => calls[1].accounts = CustodyAccounts

C14_Witness ==
  /\ pc = "returned" /\ op = "token_close_with_authority" /\ calls # << >>
  /\ calls[1].accounts[1] = args.close_account /\ calls[1].accounts[2] = args.destination_account
  /\ args.close_account # args.destination_account
  /\ args.nonce = 1

\* C17: an operation whose descriptor cannot be built returns the builder's
\* error and issues no call; otherwise it issues one call and returns its
\* answer; nothing else happens.
C17_BuildFailureNoCall ==
  pc = "returned" =>
    IF env.build # "Ok"
    THEN calls = << >> /\ ret = Err(env.build)
    ELSE Len(calls) = 1 /\ ret = env.ext

C17_Witness ==
  /\ pc = "returned" /\ op = "token_burn"
  /\ env.build = "IncorrectProgramId"
  /\ calls = << >>
  /\ ret = Err("IncorrectProgramId")

\* C19: replace_order_by_client_id hands its invocation the venue program
\* followed by the accounts of the instruction it built, in the
\* instruction's order, with and without referral; the instruction marks the
\* open-orders owner, and no other account, as signer; the owner, the token
\* program, the rent sysvar and the referral are read-only, every other
\* account writable.
C19_ReplaceAccountsFollowInstruction ==
  (pc = "returned" /\ op = "invoke_dex_replace_order_by_client_id" /\ calls # << >>) =>
    LET metas == calls[1].ix.accounts
    IN  /\ Len(metas) = IF args.srm_account_referral.some THEN 13 ELSE 12
        /\ Len(calls[1].accounts) = Len(metas) + 1
        /\ calls[1].accounts[1] = args.dex_program
        /\ calls[1].ix.program_id = args.dex_program.key
        /\ \A i \in 1 .. Len(metas) : calls[1].accounts[i + 1].key = metas[i].pubkey
        /\ \A i \in 1 .. Len(metas) : metas[i].is_signer <=> i = 8
        /\ \A i \in 1 .. Len(metas) : metas[i].is_writable <=> i \notin { 8, 11, 12, 13 }
        /\ metas[8].pubkey = args.open_orders_owner.key
        /\ metas[11].pubkey = args.token_program.key
        /\ metas[12].pubkey = args.rent_account.key
        /\ args.srm_account_referral.some => metas[13].pubkey = args.srm_account_referral.val.key

C19_Witness ==
  /\ pc = "returned" /\ op = "invoke_dex_replace_order_by_client_id" /\ calls # << >>
  /\ args.srm_account_referral.some
  /\ Len(calls[1].ix.accounts) = 13 /\ Len(calls[1].accounts) = 14
  /\ calls[1].ix.accounts[8].is_signer
  /\ ~calls[1].ix.accounts[13].is_writable

\* C20: the descriptor set_authority dispatches names the supplied
\* new_authority as the replacement for the selected role, never no
\* authority; the handle of the new authority is not among the accounts
\* passed to the invocation.
C20_SetAuthorityNamesNewAuthority ==
  (pc = "returned" /\ op = "token_set_authority" /\ calls # << >>) =>
    /\ calls[1].ix.data.tag = "SetAuthority"
    /\ calls[1].ix.data.authority_type = args.authority_type
    /\ calls[1].ix.data.new_authority = Some(args.new_authority.key)
    /\ Len(calls[1].accounts) = 3
    /\ \A i \in 1 .. Len(calls[1].accounts) : calls[1].accounts[i] \in { args.account, args.authority, args.token_program }

C20_Witness ==
  /\ pc = "returned" /\ op = "token_set_authority" /\ calls # << >>
  /\ args.authority_type = "CloseAccount"
  /\ calls[1].ix.data.new_authority.some
  /\ calls[1].ix.data.new_authority.val = args.new_authority.key
  /\ \A i \in 1 .. Len(calls[1].accounts) : calls[1].accounts[i] # args.new_authority

(***************************************************************************)
(* Claims checked under SpecTx.                                            *)
(***************************************************************************)

\* C18: the entry point returns success exactly when the processor returns
\* success; when the processor returns an error, the entry point first logs
\* that error and then returns the same error unchanged.
C18_EntryPointPassesResult ==
  (txpc \in { "committed", "aborted" }) =>
    LET processed == entry.val.processed
        events == entry.val.events
    IN  /\ Returned(events).ok <=> processed.ok
        /\ processed.ok => events = << [ do |-> "return", value |-> Ok ] >>
        /\ ~processed.ok => events = << [ do |-> "print", value |-> processed ], [ do |-> "return", value |-> processed ] >>

\* An invocation the custody service refused, and the entry point has
\* logged and returned its error.
C18_Witness ==
  /\ txpc = "aborted"
  /\ journal # << >>
  /\ ~journal[Len(journal)].ret.ok
  /\ entry.val.processed = journal[Len(journal)].ret
  /\ Len(entry.val.events) = 2

\* The invocations of the transaction the collaborator refused.
Failed == { i \in 1 .. Len(journal) : ~journal[i].ret.ok }

\* C13: a failed invocation is terminal for the transaction: no further
\* invocation is issued after it, no compensating call is made, and the
\* changes earlier successful invocations of the transaction made are
\* discarded, so the visible state equals the state before the transaction.
C13_FailedInvocationTerminal ==
  /\ \A i \in Failed : i = Len(journal) /\ journal[i].k = issued /\ inflight = { }
  /\ (Failed # { } /\ txpc = "processing") => (pc \in { "invoking", "returned" } /\ (pc = "returned" => ret = journal[Len(journal)].ret))
  /\ (Failed # { } /\ txpc # "processing") => (txpc = "aborted" /\ Returned(entry.val.events) = journal[Len(journal)].ret)
  /\ txpc = "aborted" => bal = before.val

\* A transaction whose first invocation moved tokens and whose second was
\* refused, ended.
C13_Witness ==
  /\ txpc = "aborted"
  /\ Len(journal) = 2
  /\ journal[1].ret.ok
  /\ journal[1].bal # before.val
  /\ ~journal[2].ret.ok
  /\ bal = before.val

\* C12: the invocations one calling operation issues one after another take
\* effect in the order issued: the collaborator has returned from invocation
\* k before invocation k+1 is started, and no two are in progress at once.
C12_InvocationsInIssueOrder ==
  /\ Cardinality(inflight) <= 1
  /\ \A i \in 1 .. Len(journal) : journal[i].k = i
  /\ \A f \in inflight : f.k = issued /\ Len(journal) = issued - 1
  /\ inflight = { } => Len(journal) = issued
  /\ pc \in { "idle", "returned" } => inflight = { }

\* Two invocations of one transaction, both carried out, the second on the
\* balances the first left.
C12_Witness ==
  /\ txpc = "processing"
  /\ pc = "returned"
  /\ Len(journal) = 2
  /\ journal[1].ret.ok
  /\ journal[2].ret.ok
  /\ journal[1].bal # before.val
  /\ journal[2].bal # journal[1].bal
  /\ bal = journal[2].bal

====
